---- MODULE Spec2Model ----
(***************************************************************************)
(* Transcripto (src/Transcripto.py): a PySide6 window with two file        *)
(* choosers and a trigger button.  The model covers the input normalizer   *)
(* validate_and_convert_file, the transcriber transcribe_audio and the     *)
(* three slots of TranscriptionApp, run by a single-threaded Qt event      *)
(* loop.  Strings are sequences of one-character strings so that           *)
(* os.path.splitext, str.lower and str.endswith are computed, not assumed. *)
(* The user-facing texts are written without their accents.                *)
(***************************************************************************)
EXTENDS Naturals, Sequences, FiniteSets

(* ------------------------------ bounds -------------------------------- *)

\* Number of button clicks the user makes in one run.
MaxClicks == 4
\* Largest number of segments the speech model yields for one audio file.
MaxSegs == 2

(* --------------------------- string helpers --------------------------- *)

UpperLetters ==
  <<"A","B","C","D","E","F","G","H","I","J","K","L","M",
    "N","O","P","Q","R","S","T","U","V","W","X","Y","Z">>

LowerLetters ==
  <<"a","b","c","d","e","f","g","h","i","j","k","l","m",
    "n","o","p","q","r","s","t","u","v","w","x","y","z">>

\* str.lower() on one character.
LowerChar(c) ==
  IF \E i \in 1..Len(UpperLetters) : UpperLetters[i] = c
  THEN LowerLetters[CHOOSE i \in 1..Len(UpperLetters) : UpperLetters[i] = c]
  ELSE c

\* str.lower()
Lower(s) == [i \in 1..Len(s) |-> LowerChar(s[i])]

\* str.rfind(c), 1-based; 0 when c does not occur (Python's -1).
RFind(s, c) ==
  IF \E i \in 1..Len(s) : s[i] = c
  THEN CHOOSE i \in 1..Len(s) : s[i] = c /\ \A j \in (i+1)..Len(s) : s[j] # c
  ELSE 0

\* str.endswith(suffix)
EndsWith(s, suffix) ==
  /\ Len(suffix) <= Len(s)
  /\ SubSeq(s, Len(s) - Len(suffix) + 1, Len(s)) = suffix

\* os.path.splitext(p) (posixpath): the extension starts at the last dot of
\* the last path component, leading dots of that component not counting.
SplitExt(p) ==
  LET sepIndex == RFind(p, "/")
      dotIndex == RFind(p, ".")
  IN  IF /\ dotIndex > sepIndex
         /\ \E k \in (sepIndex+1)..(dotIndex-1) : p[k] # "."
      THEN <<SubSeq(p, 1, dotIndex - 1), SubSeq(p, dotIndex, Len(p))>>
      ELSE <<p, <<>>>>

\* os.path.basename(p)
BaseName(p) == SubSeq(p, RFind(p, "/") + 1, Len(p))

(* ------------------------- the file system ---------------------------- *)

\* A file system maps the paths that exist to their contents.  kind is
\* "media" (a file that was there before the program ran), "audio" (an
\* extracted audio track), "partial" (an interrupted write) or "docx"
\* (a saved document, body = its paragraphs).
File(kind, body) == [kind |-> kind, body |-> body]

\* The existence check left out.
ExistsUnchecked(fsys, p) == TRUE

\* os.path.exists(p)
Exists(fsys, p) == p \in DOMAIN fsys

\* Writing p creates it or replaces what was there.
WriteFile(fsys, p, file) ==
  [q \in (DOMAIN fsys) \cup {p} |-> IF q = p THEN file ELSE fsys[q]]

(* ------------------------- input normalizer --------------------------- *)

supported_audio_formats ==
  { <<".","w","a","v">>, <<".","m","p","3">>, <<".","m","4","a">> }

supported_video_formats ==
  { <<".","m","p","4">>, <<".","a","v","i">>,
    <<".","m","o","v">>, <<".","m","k","v">> }

NoException == [type |-> "", msg |-> ""]

FileNotFoundError == [type |-> "FileNotFoundError", msg |-> "Le fichier n'existe pas."]

ValueError ==
  [type |-> "ValueError",
   msg  |-> "Format de fichier non pris en charge. Formats supportes : WAV, MP3, M4A, MP4, AVI, MOV, MKV."]

\* Any exception of moviepy, faster_whisper or python-docx.
DelegatedError(step) == [type |-> "Exception", msg |-> step]

\* What the moviepy calls of lines 27-29 can do: "ok" writes the audio
\* track, "fail" raises before anything is written (an unreadable clip, a
\* clip without audio track), "partial" raises partway through the write.
ExtractionOutcomes == {"ok", "fail", "partial"}

\* The extension compared as written, without .lower().
file_extension_as_written(file_path) == SplitExt(file_path)[2]

\* file_extension = os.path.splitext(file_path)[1].lower()   (line 22)
file_extension_of(file_path) == Lower(SplitExt(file_path)[2])

\* The audio path built on the whole name instead of on its stem.
audio_path_keeping_extension(file_path) == file_path \o <<".","m","p","3">>

\* audio_path = os.path.splitext(file_path)[0] + '.mp3'   (line 28)
audio_path_of(file_path) == SplitExt(file_path)[1] \o <<".","m","p","3">>

\* validate_and_convert_file(file_path) on file system fsys; the result is
\* the exception raised (or none), the value returned and the file system left.
validate_and_convert_file(fsys, file_path, extraction) ==
  IF ~Exists(fsys, file_path)
  THEN [raised |-> FileNotFoundError, result |-> <<>>, fs |-> fsys]
  ELSE
    LET file_extension == file_extension_of(file_path)
        audio_path == audio_path_of(file_path)
    IN  IF file_extension \in supported_audio_formats
        THEN [raised |-> NoException, result |-> file_path, fs |-> fsys]
        ELSE IF file_extension \in supported_video_formats
        THEN CASE extraction = "ok" ->
                    [raised |-> NoException, result |-> audio_path,
                     fs |-> WriteFile(fsys, audio_path, File("audio", <<>>))]
               [] extraction = "partial" ->
                    [raised |-> DelegatedError("write_audiofile"), result |-> <<>>,
                     fs |-> WriteFile(fsys, audio_path, File("partial", <<>>))]
               [] OTHER ->
                    [raised |-> DelegatedError("VideoFileClip"), result |-> <<>>,
                     fs |-> fsys]
        ELSE [raised |-> ValueError, result |-> <<>>, fs |-> fsys]

(* ---------------------------- transcriber ----------------------------- *)

\* python-docx paragraphs: add_heading(text, level=1) and add_paragraph(text).
Heading(text) == [style |-> "Heading 1", text |-> text]

Paragraph(text) == [style |-> "Normal", text |-> text]

\* Document(); doc.add_heading("Transcription", level=1)   (lines 41-42)
NewDocument == << Heading("Transcription") >>

\* The paragraph put right under the heading instead of at the end.
add_paragraph_on_top(doc, text) == <<Head(doc), Paragraph(text)>> \o Tail(doc)

\* doc.add_paragraph(segment.text)   (line 45)
add_paragraph(doc, text) == Append(doc, Paragraph(text))

\* Texts a segment can carry.
SegmentTexts == {"s1", "s2"}

\* The segment sequences model.transcribe can yield: the sequences of at
\* most n texts of S in which no text directly follows itself.
RECURSIVE SeqsUpTo(_, _)
SeqsUpTo(S, n) ==
  IF n = 0 THEN { <<>> }
  ELSE LET shorter == SeqsUpTo(S, n - 1)
           longest == { t \in shorter : Len(t) = n - 1 }
       IN  shorter \cup
           { Append(t, x) : <<t, x>> \in
               { y \in longest \X S : IF y[1] = <<>> THEN TRUE
                                       ELSE y[1][Len(y[1])] # y[2] } }

SegmentSeqs == SeqsUpTo(SegmentTexts, MaxSegs)

(* ------------------------- the user's choices ------------------------- *)

\* A cancelled file dialog returns the empty string.
Cancelled == <<>>

\* self.selected_file = None, self.output_file = None (lines 128-129).  The
\* handlers test the fields only by truth value (`not self.selected_file`,
\* `if file_path:`) and never store an empty string, so the unset field and
\* the empty string are one value here.
None == <<>>

\* Paths the user can pick in the open dialog (the dialog's name filter does
\* not stop the user from typing any name).
InputPicks ==
  { <<"a",".","w","a","v">>,
    <<"b",".","M","p","3">>,
    <<"c",".","m","p","4">>,
    <<"d",".","M","K","V">>,
    <<"n",".","t","x","t">>,
    <<".","m","p","3">>,
    <<"e",".","m","p","4","/","f">> }

\* Paths the user can pick in the save dialog.
OutputPicks ==
  { <<"o">>,
    <<"o",".","d","o","c","x">>,
    <<"o",".","D","O","C","X">> }

\* Which of the paths exist when the program starts.
InitialFileSets ==
  { InputPicks,
    InputPicks \cup { <<"c",".","m","p","3">> },
    { <<"c",".","m","p","4">> } }

(* ------------------------------ state --------------------------------- *)

VARIABLES
  selected_file,   \* self.selected_file
  output_file,     \* self.output_file
  file_label,      \* self.file_label's text
  output_label,    \* self.output_label's text
  status_label,    \* self.status_label: [text, style]
  fs,              \* the file system
  dialog,          \* the modal message box on screen, if any
  queue,           \* clicks posted to the window and not yet dispatched
  stack,           \* the running invocations of transcribe(), innermost last
  clicks,          \* clicks made so far
  picked           \* what the last save dialog returned (file_path, line 144)

vars == <<selected_file, output_file, file_label, output_label, status_label,
          fs, dialog, queue, stack, clicks, picked>>

Buttons == {"select_file", "select_output_file", "transcribe"}

NoDialog == [kind |-> "none", text |-> "", path |-> <<>>]

InProgress == "Transcription en cours... Veuillez patienter."

Succeeded == "Transcription terminee avec succes !"

Failed == "Une erreur s'est produite."

\* An invocation of transcribe().  pc is the place it has reached:
\*   "warning"   a QMessageBox.warning of lines 156/160 is on screen
\*   "validate"  about to call validate_and_convert_file (line 165)
\*   "flush"     inside QApplication.processEvents() (line 170)
\*   "load"      in transcribe_audio, about to load the model (line 38)
\*   "model"     about to call model.transcribe (line 39)
\*   "loop"      in the loop over the segments (lines 44-45), then doc.save
\*   "success"   the QMessageBox.information of line 176 is on screen
\*   "failed"    the QMessageBox.critical of line 179 is on screen
\* trigger_output, flushes and calls record, for the properties, the value
\* of self.output_file when the slot was entered, the number of calls of
\* processEvents() and the calls made so far.
Frame(pc, out) ==
  [pc |-> pc, audio_path |-> <<>>, output_path |-> <<>>, segments |-> <<>>,
   next |-> 1, doc |-> <<>>, raised |-> NoException, flushes |-> 0,
   trigger_output |-> out, calls |-> <<>>]

Top == stack[Len(stack)]

\* The stack with its innermost frame replaced.
SetTop(f) == [stack EXCEPT ![Len(stack)] = f]

Pop == SubSeq(stack, 1, Len(stack) - 1)

\* Qt delivers a posted click when the event loop runs: from app.exec()
\* when no slot is running, or from processEvents() inside transcribe().
Dispatching ==
  /\ dialog = NoDialog
  /\ queue # <<>>
  /\ IF stack = <<>> THEN TRUE ELSE Top.pc = "flush"

Init ==
  /\ selected_file = None
  /\ output_file = None
  /\ file_label = <<"Aucun fichier selectionne", <<>>>>
  /\ output_label = <<"Aucun emplacement de fichier de sortie selectionne", <<>>>>
  /\ status_label = [text |-> "", style |-> ""]
  /\ fs \in { [p \in S |-> File("media", <<>>)] : S \in InitialFileSets }
  /\ dialog = NoDialog
  /\ queue = <<>>
  /\ stack = <<>>
  /\ clicks = 0
  /\ picked = Cancelled

(* ----------------------------- the user ------------------------------- *)

\* The user clicks a button of the main window.  A modal message box or
\* file dialog blocks the window, so no click reaches it meanwhile.  While
\* no slot runs, app.exec() delivers each click before the next one comes;
\* while transcribe() runs, the clicks wait in the queue.  Only the clicks
\* made before processEvents() returns (line 170) are delivered inside
\* transcribe(); a later one waits until the slot has returned, which is
\* the same as the click being made then.
Click(b) ==
  /\ clicks < MaxClicks
  /\ dialog = NoDialog
  /\ IF stack = <<>> THEN queue = <<>> ELSE Top.pc \in {"validate", "flush"}
  /\ clicks' = clicks + 1
  /\ queue' = Append(queue, b)
  /\ UNCHANGED <<selected_file, output_file, file_label, output_label,
                 status_label, fs, dialog, stack, picked>>

(* ------------------------------ slots --------------------------------- *)

\* select_file (lines 131-139); file_path is what getOpenFileName returns.
select_file(file_path) ==
  /\ Dispatching
  /\ Head(queue) = "select_file"
  /\ queue' = Tail(queue)
  /\ IF file_path # Cancelled
     THEN /\ selected_file' = file_path
          /\ file_label' = <<"Fichier selectionne : ", BaseName(file_path)>>
     ELSE UNCHANGED <<selected_file, file_label>>
  /\ UNCHANGED <<output_file, output_label, status_label, fs, dialog, stack,
                 clicks, picked>>

\* The extension appended without the test of line 148.
WithDocxAlways(file_path) == file_path \o <<".","d","o","c","x">>

\* The path select_output_file stores for a pick (lines 148-150).
WithDocx(file_path) ==
  IF ~EndsWith(file_path, <<".","d","o","c","x">>)
  THEN file_path \o <<".","d","o","c","x">>
  ELSE file_path

\* select_output_file (lines 141-151); file_path is what getSaveFileName returns.
select_output_file(file_path) ==
  /\ Dispatching
  /\ Head(queue) = "select_output_file"
  /\ queue' = Tail(queue)
  /\ picked' = file_path
  /\ IF file_path # Cancelled
     THEN /\ output_file' = WithDocx(file_path)
          /\ output_label' = <<"Fichier de sortie : ", BaseName(WithDocx(file_path))>>
     ELSE UNCHANGED <<output_file, output_label>>
  /\ UNCHANGED <<selected_file, file_label, status_label, fs, dialog, stack, clicks>>

\* The check of the output path (lines 159-161) left out.
MissingInputOnly == selected_file = None

\* The check of the input path (lines 155-157) left out.
MissingOutputOnly == output_file = None

\* Whether transcribe() returns at its checks of lines 155-161.
MissingPath == selected_file = None \/ output_file = None

\* transcribe(), lines 153-163: the two checks, then the try block is entered.
transcribe_begin ==
  /\ Dispatching
  /\ Head(queue) = "transcribe"
  /\ queue' = Tail(queue)
  /\ IF MissingPath
     THEN /\ stack' = Append(stack, Frame("warning", output_file))
          /\ dialog' = [kind |-> "warning",
                        text |-> IF selected_file = None
                                 THEN "Veuillez selectionner un fichier avant de continuer."
                                 ELSE "Veuillez selectionner un emplacement de fichier de sortie.",
                        path |-> <<>>]
     ELSE /\ stack' = Append(stack, Frame("validate", output_file))
          /\ UNCHANGED dialog
  /\ UNCHANGED <<selected_file, output_file, file_label, output_label,
                 status_label, fs, clicks, picked>>

\* The except clause without the setText of line 178.
RaiseKeepingStatus(f, e, call, fsys) ==
  /\ stack' = SetTop([f EXCEPT !.pc = "failed", !.raised = e,
                               !.calls = Append(f.calls, call)])
  /\ fs' = fsys
  /\ status_label' = status_label
  /\ dialog' = [kind |-> "critical", text |-> e.msg, path |-> <<>>]

\* The except clause saving the paragraphs gathered so far.
RaiseSavingDocument(f, e, call, fsys) ==
  /\ stack' = SetTop([f EXCEPT !.pc = "failed", !.raised = e,
                               !.calls = Append(f.calls, call)])
  /\ fs' = IF f.doc # <<>>
           THEN [q \in (DOMAIN fsys) \cup {f.output_path} |->
                   IF q = f.output_path THEN [kind |-> "docx", body |-> f.doc]
                   ELSE fsys[q]]
           ELSE fsys
  /\ status_label' = [status_label EXCEPT !.text = Failed]
  /\ dialog' = [kind |-> "critical", text |-> e.msg, path |-> <<>>]

\* The except clause of lines 177-179, entered with exception e raised by
\* call, the file system being fsys.
Raise(f, e, call, fsys) ==
  /\ stack' = SetTop([f EXCEPT !.pc = "failed", !.raised = e,
                               !.calls = Append(f.calls, call)])
  /\ fs' = fsys
  /\ status_label' = [status_label EXCEPT !.text = Failed]
  /\ dialog' = [kind |-> "critical", text |-> e.msg, path |-> <<>>]

\* Line 170 left out: transcribe_audio is called right after the setText.
AfterValidateWithoutFlush(f, audio_path) ==
  [f EXCEPT !.pc = "load", !.audio_path = audio_path, !.output_path = output_file,
            !.calls = @ \o <<"validate_and_convert_file", "transcribe_audio">>]

\* The invocation once validate_and_convert_file has returned audio_path:
\* lines 168-170 up to the call of processEvents().
AfterValidate(f, audio_path) ==
  [f EXCEPT !.pc = "flush", !.audio_path = audio_path, !.flushes = @ + 1,
            !.calls = @ \o <<"validate_and_convert_file", "processEvents">>]

\* Line 165, then lines 168-170 up to the call of processEvents().
transcribe_validate(extraction) ==
  /\ stack # <<>>
  /\ Top.pc = "validate"
  /\ LET r == validate_and_convert_file(fs, selected_file, extraction)
     IN  IF r.raised # NoException
         THEN Raise(Top, r.raised, "validate_and_convert_file", r.fs)
         ELSE /\ fs' = r.fs
              /\ stack' = SetTop(AfterValidate(Top, r.result))
              /\ status_label' = [text |-> InProgress, style |-> "font-weight: bold;"]
              /\ UNCHANGED dialog
  /\ UNCHANGED <<selected_file, output_file, file_label, output_label, queue,
                 clicks, picked>>

\* processEvents() returns once no posted event is left; line 173 then reads
\* self.output_file and calls transcribe_audio.
transcribe_call ==
  /\ stack # <<>>
  /\ Top.pc = "flush"
  /\ queue = <<>>
  /\ stack' = SetTop([Top EXCEPT !.pc = "load", !.output_path = output_file,
                                 !.calls = Append(@, "transcribe_audio")])
  /\ UNCHANGED <<selected_file, output_file, file_label, output_label,
                 status_label, fs, dialog, queue, clicks, picked>>

\* Line 38: WhisperModel("medium").
load_model(ok) ==
  /\ stack # <<>>
  /\ Top.pc = "load"
  /\ IF ok
     THEN /\ stack' = SetTop([Top EXCEPT !.pc = "model",
                                         !.calls = Append(@, "WhisperModel")])
          /\ UNCHANGED <<status_label, dialog, fs>>
     ELSE Raise(Top, DelegatedError("WhisperModel"), "WhisperModel", fs)
  /\ UNCHANGED <<selected_file, output_file, file_label, output_label,
                 queue, clicks, picked>>

\* Line 39: model.transcribe(file_path) returns the lazy sequence of segments;
\* lines 41-42 then create the document.
model_transcribe(ok, segs) ==
  /\ stack # <<>>
  /\ Top.pc = "model"
  /\ IF ok
     THEN /\ stack' = SetTop([Top EXCEPT !.pc = "loop", !.segments = segs,
                                         !.next = 1, !.doc = NewDocument,
                                         !.calls = Append(@, "model.transcribe")])
          /\ UNCHANGED <<status_label, dialog, fs>>
     ELSE Raise(Top, DelegatedError("model.transcribe"), "model.transcribe", fs)
  /\ UNCHANGED <<selected_file, output_file, file_label, output_label,
                 queue, clicks, picked>>

\* Lines 44-45: one turn of the loop; the model decodes the next segment
\* when the loop asks for it, and may fail there.
next_segment(ok) ==
  /\ stack # <<>>
  /\ Top.pc = "loop"
  /\ Top.next <= Len(Top.segments)
  /\ IF ok
     THEN /\ stack' = SetTop([Top EXCEPT
                                !.doc = add_paragraph(@, Top.segments[Top.next]),
                                !.next = @ + 1])
          /\ UNCHANGED <<status_label, dialog, fs>>
     ELSE Raise(Top, DelegatedError("segments"), "segments", fs)
  /\ UNCHANGED <<selected_file, output_file, file_label, output_label,
                 queue, clicks, picked>>

\* What doc.save can do: as for the audio extraction.
SaveOutcomes == {"ok", "fail", "partial"}

\* The file system after doc.save(output_path) (line 47).
doc_save(fsys, doc, output_path, outcome) ==
  CASE outcome = "ok" -> WriteFile(fsys, output_path, File("docx", doc))
    [] outcome = "partial" -> WriteFile(fsys, output_path, File("partial", <<>>))
    [] OTHER -> fsys

\* Line 47, then lines 175-176 when the save succeeded.
save_document(outcome) ==
  /\ stack # <<>>
  /\ Top.pc = "loop"
  /\ Top.next > Len(Top.segments)
  /\ IF outcome = "ok"
     THEN /\ fs' = doc_save(fs, Top.doc, Top.output_path, outcome)
          /\ stack' = SetTop([Top EXCEPT !.pc = "success",
                                         !.calls = Append(@, "doc.save")])
          /\ status_label' = [status_label EXCEPT !.text = Succeeded]
          /\ dialog' = [kind |-> "information",
                        text |-> "La transcription a ete enregistree dans",
                        path |-> output_file]
     ELSE Raise(Top, DelegatedError("doc.save"), "doc.save",
                doc_save(fs, Top.doc, Top.output_path, outcome))
  /\ UNCHANGED <<selected_file, output_file, file_label, output_label, queue,
                 clicks, picked>>

\* The user closes the message box; transcribe() returns.
dismiss_dialog ==
  /\ stack # <<>>
  /\ Top.pc \in {"warning", "success", "failed"}
  /\ dialog' = NoDialog
  /\ stack' = Pop
  /\ UNCHANGED <<selected_file, output_file, file_label, output_label,
                 status_label, fs, queue, clicks, picked>>

(* --------------------------- specification ---------------------------- *)

\* Every step but the user's clicks, the file dialogs returning a path of
\* ins or outs and the model yielding a sequence of segs.
StepWith(ins, outs, segseqs) ==
  \/ \E p \in ins \cup {Cancelled} : select_file(p)
  \/ \E p \in outs \cup {Cancelled} : select_output_file(p)
  \/ transcribe_begin
  \/ \E x \in ExtractionOutcomes : transcribe_validate(x)
  \/ transcribe_call
  \/ \E ok \in BOOLEAN : load_model(ok)
  \/ \E ok \in BOOLEAN, segs \in segseqs : model_transcribe(ok, segs)
  \/ \E ok \in BOOLEAN : next_segment(ok)
  \/ \E o \in SaveOutcomes : save_document(o)
  \/ dismiss_dialog

Step == StepWith(InputPicks, OutputPicks, SegmentSeqs)

Next ==
  \/ \E b \in Buttons : Click(b)
  \/ Step

Spec == Init /\ [][Next]_vars

\* The same program with fewer paths to pick and one segment text, for the
\* properties of progress: the slots run to completion (every delegated call
\* returns or raises) and the user answers every dialog.
LiveInputPicks ==
  { <<"a",".","w","a","v">>, <<"c",".","m","p","4">>, <<"n",".","t","x","t">> }

LiveOutputPicks == { <<"o">> }

LiveInit ==
  /\ Init
  /\ DOMAIN fs = { <<"c",".","m","p","4">> }

LiveStep == StepWith(LiveInputPicks, LiveOutputPicks, SeqsUpTo({"s1"}, MaxSegs))

LiveNext ==
  \/ \E b \in Buttons : Click(b)
  \/ LiveStep

FairSpec == LiveInit /\ [][LiveNext]_vars /\ WF_vars(LiveStep)

(* ----------------------------- properties ----------------------------- *)

DocxExt == <<".","d","o","c","x">>

Mp3Ext == <<".","m","p","3">>

AudioExts == { <<".","w","a","v">>, <<".","m","p","3">>, <<".","m","4","a">> }

VideoExts == { <<".","m","p","4">>, <<".","a","v","i">>,
               <<".","m","o","v">>, <<".","m","k","v">> }

\* A step that starts an invocation of transcribe().
TriggerStep == Len(stack') = Len(stack) + 1

\* The step in which the innermost invocation calls validate_and_convert_file.
ValidateStep ==
  /\ stack # <<>>
  /\ Top.pc = "validate"
  /\ Len(stack') = Len(stack)
  /\ stack'[Len(stack)].pc # "validate"

\* The innermost invocation after the step.
TopAfter == stack'[Len(stack')]

\* The step in which select_output_file runs.
SelectOutputStep ==
  /\ queue # <<>>
  /\ Head(queue) = "select_output_file"
  /\ queue' = Tail(queue)

\* C1: a trigger while the input path or the output path is unset shows a
\* warning dialog and returns without calling validate_and_convert_file or
\* transcribe_audio, the two paths, the status line and the files unchanged.
C1_MissingPathOnlyWarns ==
  [][ /\ (TriggerStep /\ (selected_file = None \/ output_file = None))
         => /\ dialog'.kind = "warning"
            /\ TopAfter.pc = "warning"
            /\ TopAfter.calls = <<>>
            /\ UNCHANGED <<selected_file, output_file, status_label, fs>>
      /\ (stack # <<>> /\ dialog.kind = "warning")
         => \/ UNCHANGED vars
            \/ /\ stack' = Pop
               /\ Top.calls = <<>>
               /\ dialog' = NoDialog
               /\ UNCHANGED <<selected_file, output_file, status_label, fs>>
    ]_vars

C1_Witness ==
  /\ stack # <<>>
  /\ Top.pc = "warning"
  /\ dialog.kind = "warning"
  /\ selected_file # None
  /\ output_file = None

\* C3: validate_and_convert_file raises the not-found error for a path that
\* does not exist and the unsupported-format error for an existing path
\* whose extension is neither audio nor video, and writes no file.
C3_NotFoundOrUnsupported ==
  [][ ValidateStep =>
        /\ selected_file \notin DOMAIN fs
           => /\ TopAfter.pc = "failed"
              /\ TopAfter.raised.type = "FileNotFoundError"
              /\ fs' = fs
        /\ (/\ selected_file \in DOMAIN fs
            /\ Lower(SplitExt(selected_file)[2]) \notin AudioExts \cup VideoExts)
           => /\ TopAfter.pc = "failed"
              /\ TopAfter.raised.type = "ValueError"
              /\ fs' = fs
    ]_vars

C3_Witness ==
  /\ stack # <<>>
  /\ Top.pc = "failed"
  /\ Top.raised = FileNotFoundError
  /\ selected_file = <<"a",".","w","a","v">>
  /\ selected_file \notin DOMAIN fs

\* C4: for an existing path whose extension is .wav, .mp3 or .m4a in any
\* letter case, validate_and_convert_file returns the path it was given and
\* writes no file.
C4_AudioReturnedUnchanged ==
  [][ (/\ ValidateStep
       /\ selected_file \in DOMAIN fs
       /\ Lower(SplitExt(selected_file)[2]) \in AudioExts)
      => /\ TopAfter.pc = "flush"
         /\ TopAfter.audio_path = selected_file
         /\ fs' = fs
    ]_vars

C4_Witness ==
  /\ stack # <<>>
  /\ Top.pc = "flush"
  /\ selected_file = <<"b",".","M","p","3">>
  /\ Top.audio_path = <<"b",".","M","p","3">>

\* C5: the document transcribe_audio saves holds the heading "Transcription"
\* and then one paragraph per segment, with the segments' texts in the order
\* the model returned them, and nothing else.
C5_HeadingThenSegments ==
  \A i \in 1..Len(stack) :
    stack[i].pc = "success" =>
      LET f == stack[i]
          n == Len(f.segments)
      IN  /\ Len(f.doc) = n + 1
          /\ f.doc[1] = [style |-> "Heading 1", text |-> "Transcription"]
          /\ \A k \in 1..n : f.doc[k + 1] = [style |-> "Normal", text |-> f.segments[k]]
          /\ i = Len(stack) => fs[f.output_path] = [kind |-> "docx", body |-> f.doc]

C5_Witness ==
  /\ stack # <<>>
  /\ Top.pc = "success"
  /\ Top.segments = <<"s2", "s1">>
  /\ fs[Top.output_path].kind = "docx"

\* C6: the stored output path is unset or ends in ".docx"; a cancelled
\* dialog leaves it as it was, a pick without the extension is stored with
\* ".docx" appended and a pick ending in ".docx" is stored as it is.
C6_OutputEndsInDocx ==
  [][ /\ (output_file' = None \/ EndsWith(output_file', DocxExt))
      /\ IF SelectOutputStep
         THEN output_file' =
                IF picked' = Cancelled THEN output_file
                ELSE IF EndsWith(picked', DocxExt) THEN picked'
                ELSE picked' \o DocxExt
         ELSE output_file' = output_file
    ]_vars

C6_Witness ==
  /\ picked = <<"o">>
  /\ output_file = <<"o",".","d","o","c","x">>

\* The path of the audio sibling of a video file.
Sibling(p) == SplitExt(p)[1] \o Mp3Ext

\* Every file but p is as it was.
OthersUntouched(p) ==
  /\ DOMAIN fs \subseteq DOMAIN fs'
  /\ DOMAIN fs' \subseteq DOMAIN fs \cup {p}
  /\ \A q \in DOMAIN fs \ {p} : fs'[q] = fs[q]

ExistingVideo ==
  /\ selected_file \in DOMAIN fs
  /\ Lower(SplitExt(selected_file)[2]) \in VideoExts

\* C2 as stated: for every existing path with a video extension,
\* validate_and_convert_file writes the audio sibling (same base name, .mp3),
\* returns its path and leaves the original untouched.
C2_VideoAlwaysConverted ==
  [][ (ValidateStep /\ ExistingVideo)
      => /\ TopAfter.pc = "flush"
         /\ TopAfter.audio_path = Sibling(selected_file)
         /\ Sibling(selected_file) \in DOMAIN fs'
         /\ fs'[Sibling(selected_file)].kind = "audio"
         /\ OthersUntouched(Sibling(selected_file))
    ]_vars

\* C2 amended: for an existing path with a video extension, either the
\* extraction succeeds, and validate_and_convert_file has written the audio
\* sibling (creating it or replacing the file of that name) and returns its
\* path, or the extraction raises, nothing is returned and at most an
\* unfinished sibling is left; either way the original and every other file
\* are untouched.
C2_VideoConvertedOrRaises ==
  [][ (ValidateStep /\ ExistingVideo)
      => /\ OthersUntouched(Sibling(selected_file))
         /\ fs'[selected_file] = fs[selected_file]
         /\ IF TopAfter.pc = "flush"
            THEN /\ TopAfter.audio_path = Sibling(selected_file)
                 /\ Sibling(selected_file) \in DOMAIN fs'
                 /\ fs'[Sibling(selected_file)].kind = "audio"
            ELSE /\ TopAfter.pc = "failed"
                 /\ TopAfter.raised.type = "Exception"
                 /\ TopAfter.audio_path = <<>>
                 /\ IF Sibling(selected_file) \in DOMAIN fs'
                    THEN \/ fs'[Sibling(selected_file)].kind = "partial"
                         \/ /\ Sibling(selected_file) \in DOMAIN fs
                            /\ fs'[Sibling(selected_file)] = fs[Sibling(selected_file)]
                    ELSE TRUE
    ]_vars

C2_Witness ==
  /\ stack # <<>>
  /\ Top.pc = "flush"
  /\ selected_file = <<"d",".","M","K","V">>
  /\ Top.audio_path = <<"d",".","m","p","3">>
  /\ fs[<<"d",".","m","p","3">>].kind = "audio"
  /\ fs[<<"d",".","M","K","V">>].kind = "media"

Last(q) == q[Len(q)]

\* C7: once a step of normalize, load model, transcribe, save has failed, no
\* later step of that trigger runs: after a failure of the normalizer the
\* model is not loaded and transcribe_audio not called, a failure of the
\* model (loading it, calling it, or decoding a segment) leaves the files as
\* they were, and the status line reads the failure message when
\* transcribe() returns.
C7_FailureAborts ==
  [][ /\ \A i \in 1..Len(stack') :
           LET f == stack'[i]
           IN  f.pc = "failed" =>
                 /\ i = Len(stack')
                 /\ status_label'.text = Failed
                 /\ dialog'.kind = "critical"
                 /\ f.raised # NoException
                 /\ Last(f.calls) = "validate_and_convert_file"
                    => /\ f.calls = <<"validate_and_convert_file">>
                       /\ f.flushes = 0
                 /\ f.raised.type \in {"FileNotFoundError", "ValueError"}
                    => Last(f.calls) = "validate_and_convert_file"
                 /\ Last(f.calls) \in {"WhisperModel", "model.transcribe", "segments"}
                    => \A k \in 1..Len(f.calls) : f.calls[k] # "doc.save"
      /\ IF stack = <<>> THEN TRUE
         ELSE /\ Top.pc = "failed"
                 => \/ UNCHANGED vars
                    \/ /\ stack' = Pop
                       /\ status_label'.text = Failed
                       /\ fs' = fs
              /\ (Top.pc \in {"load", "model"}
                    \/ (Top.pc = "loop" /\ Top.next <= Len(Top.segments)))
                 => fs' = fs
    ]_vars

C7_Witness ==
  /\ stack # <<>>
  /\ Top.pc = "failed"
  /\ Last(Top.calls) = "segments"
  /\ Top.next = 2
  /\ Top.output_path \notin DOMAIN fs
  /\ status_label.text = Failed

RunningPcs == {"validate", "flush", "load", "model", "loop"}

Running == \E i \in 1..Len(stack) : stack[i].pc \in RunningPcs

\* The order of the places of transcribe().
Follows ==
  { <<"validate", "flush">>, <<"validate", "failed">>, <<"flush", "load">>,
    <<"load", "model">>, <<"load", "failed">>, <<"model", "loop">>,
    <<"model", "failed">>, <<"loop", "loop">>, <<"loop", "success">>,
    <<"loop", "failed">> }

\* C8: transcribe() starts its work only with both paths set; a running
\* invocation is never dropped or set back; and it always ends with no slot
\* running and the status line reading the success or the failure message.
C8_RunningExits ==
  /\ [][ (TriggerStep /\ TopAfter.pc # "warning")
         => (selected_file # None /\ output_file # None) ]_vars
  /\ [][ \A i \in 1..Len(stack) :
           stack[i].pc \in RunningPcs
           => /\ Len(stack') >= i
              /\ \/ stack'[i] = stack[i]
                 \/ <<stack[i].pc, stack'[i].pc>> \in Follows ]_vars
  /\ Running ~> (stack = <<>> /\ status_label.text \in {Succeeded, Failed})

C8_Witness ==
  /\ stack = <<>>
  /\ status_label.text = Succeeded
  /\ selected_file # None
  /\ output_file # None

\* C9 as stated: a trigger that passes the check of the two paths calls
\* processEvents() once, and before it calls validate_and_convert_file.
C9_FlushBeforeNormalizer ==
  \A i \in 1..Len(stack) :
    stack[i].calls # <<>> =>
      /\ stack[i].flushes = 1
      /\ stack[i].calls[1] = "processEvents"

\* C9 amended: a trigger that passes the check of the two paths and whose
\* call of validate_and_convert_file returns sets the in-progress status and
\* calls processEvents() once, after validate_and_convert_file (audio
\* extraction included) has returned and right before it calls
\* transcribe_audio; when validate_and_convert_file raises, the in-progress
\* status is not set and processEvents() is not called.
C9_FlushAfterNormalizer ==
  [][ /\ ValidateStep
         => IF TopAfter.pc = "failed"
            THEN /\ TopAfter.flushes = 0
                 /\ TopAfter.calls = <<"validate_and_convert_file">>
                 /\ status_label'.text # InProgress
            ELSE /\ TopAfter.pc = "flush"
                 /\ TopAfter.flushes = 1
                 /\ TopAfter.calls = <<"validate_and_convert_file", "processEvents">>
                 /\ status_label'.text = InProgress
      /\ \A i \in 1..Len(stack') :
           LET f == stack'[i]
           IN  /\ f.pc \in {"warning", "validate"} => (f.flushes = 0 /\ f.calls = <<>>)
               /\ f.pc \in {"flush", "load", "model", "loop", "success"} => f.flushes = 1
               /\ f.flushes <= 1
               /\ Len(f.calls) >= 3
                  => SubSeq(f.calls, 1, 3) =
                       <<"validate_and_convert_file", "processEvents", "transcribe_audio">>
    ]_vars

C9_Witness ==
  /\ stack # <<>>
  /\ Top.pc = "load"
  /\ Top.flushes = 1
  /\ Top.audio_path = <<"c",".","m","p","3">>
  /\ Top.calls = <<"validate_and_convert_file", "processEvents", "transcribe_audio">>

\* C10: the output path is read once, when the trigger is activated: the path
\* handed to transcribe_audio and the path named in the success dialog are
\* the value self.output_file had then, and no second transcribe() runs
\* inside the first.
C10_OutputReadOnce ==
  /\ \A i \in 1..Len(stack) :
       stack[i].pc \in {"load", "model", "loop", "success"}
       => stack[i].output_path = stack[i].trigger_output
  /\ dialog.kind = "information" => dialog.path = Top.trigger_output
  /\ Cardinality({ i \in 1..Len(stack) : stack[i].pc # "warning" }) <= 1

====
